---- MODULE Spec2Model ----
(***************************************************************************)
(* A model of cf-dns-edit: the menu variant (src/cf_dns_edit/__init__.py)  *)
(* and the screens of the TUI variant (src/cf_dns_edit/main.py).            *)
(*                                                                         *)
(* Text is modelled as a sequence of one-character strings, so that        *)
(* str.strip, str.lower, str.upper, int() and the JSON encoding of the     *)
(* config file are computed and not assumed.                               *)
(***************************************************************************)
EXTENDS Integers, Sequences, FiniteSets, TLC

VARIABLES
    variant,      \* "menu": __init__.py main(); "tui": main.py cli()
    pc,           \* menu variant: the point of the program the control is at
    exitCode,     \* -1 while running, else the process exit code
    file,         \* the text of CONFIG_PATH, or Missing
    config,       \* the dict `config` of main()
    token,        \* the local `token` of cloudflare_login
    verified,     \* TRUE once cf.user.tokens.verify() has succeeded on `token`
    domains,      \* the list `domains` of main() / of load_domains
    zone,         \* the domain manage_dns_records / DnsManagementScreen works on
    dns_records,  \* the list `dns_records` / `records` of load_dns_records
    record,       \* the record object edited by edit_dns_record (the draft)
    draft,        \* add_dns_record: the values accepted so far
    listing,      \* the pages the remote service served to the last list call
    call,         \* the remote call issued by the last step (op "none" if none)
    act,          \* the name of the last step
    inputs,       \* the raw lines the last step read from input()
    selected,     \* the index the last step's menu returned (0: None, -1: no menu)
    screen_stack, \* TUI variant: App.screen_stack, bottom first
    cf_instance,  \* TUI variant: app.cf_instance ("None", or "client")
    size_ok,      \* TUI variant: the terminal is at least MIN_SCREEN_SIZE
    app_state,    \* TUI variant: "cli", "unmounted", "running" or "exited"
    pending,      \* TUI variant: the screen whose Mount event is due, or "none"
    manage_mounted, \* TUI variant: the installed "manage" screen is mounted
    TOKEN,        \* TUI variant: os.getenv("CLOUDFLARE_API_TOKEN"), or NoEnv
    save_failed   \* a save_config call has failed

vars == <<variant, pc, exitCode, file, config, token, verified, domains, zone,
          dns_records, record, draft, listing, call, act, inputs, selected,
          screen_stack, cf_instance, size_ok, app_state, pending,
          manage_mounted, TOKEN, save_failed>>

\* the state of the program proper of each variant (the rest records the last step)
menuVars == <<pc, exitCode, file, config, token, verified, domains, zone,
              dns_records, record, draft>>

tuiVars == <<screen_stack, cf_instance, size_ok, app_state, pending,
             manage_mounted>>

-----------------------------------------------------------------------------
(* Text: str.strip, str.lower, str.upper, int()                            *)

Uppers == <<"A","B","C","D","E","F","G","H","I","J","K","L","M",
            "N","O","P","Q","R","S","T","U","V","W","X","Y","Z">>
Lowers == <<"a","b","c","d","e","f","g","h","i","j","k","l","m",
            "n","o","p","q","r","s","t","u","v","w","x","y","z">>
Digits == <<"0","1","2","3","4","5","6","7","8","9">>

\* the characters str.strip() removes
Whitespace == {" ", "\n", "\t", "\r", "\f"}

IndexOf(c, alphabet) == CHOOSE i \in 1..Len(alphabet) : alphabet[i] = c
InSeq(c, alphabet) == \E i \in 1..Len(alphabet) : alphabet[i] = c

LowerChar(c) == IF InSeq(c, Uppers) THEN Lowers[IndexOf(c, Uppers)] ELSE c
UpperChar(c) == IF InSeq(c, Lowers) THEN Uppers[IndexOf(c, Lowers)] ELSE c

Lower(s) == [i \in 1..Len(s) |-> LowerChar(s[i])]
Upper(s) == [i \in 1..Len(s) |-> UpperChar(s[i])]

RECURSIVE LStrip(_)
LStrip(s) == IF s # <<>> /\ Head(s) \in Whitespace THEN LStrip(Tail(s)) ELSE s

RECURSIVE RStrip(_)
RStrip(s) ==
    IF s # <<>> /\ s[Len(s)] \in Whitespace
    THEN RStrip(SubSeq(s, 1, Len(s) - 1))
    ELSE s

Strip(s) == RStrip(LStrip(s))

\* int(s) of a stripped string: an optional sign, then decimal digits in which
\* single underscores may separate digits.  ok = FALSE stands for ValueError.
IsDigit(c) == InSeq(c, Digits)
DigitVal(c) == IndexOf(c, Digits) - 1

RECURSIVE DigitsValue(_, _)
DigitsValue(s, acc) ==
    IF s = <<>> THEN acc
    ELSE IF Head(s) = "_" THEN DigitsValue(Tail(s), acc)
    ELSE DigitsValue(Tail(s), 10 * acc + DigitVal(Head(s)))

DigitsOk(s) ==
    /\ s # <<>>
    /\ IsDigit(s[1])
    /\ IsDigit(s[Len(s)])
    /\ \A i \in 1..Len(s) : IsDigit(s[i]) \/ s[i] = "_"
    /\ \A i \in 1..(Len(s) - 1) : ~(s[i] = "_" /\ s[i + 1] = "_")

ParseInt(s) ==
    LET signed == s # <<>> /\ Head(s) \in {"+", "-"}
        body   == IF signed THEN Tail(s) ELSE s
    IN  IF DigitsOk(body)
        THEN [ok |-> TRUE,
              val |-> IF signed /\ Head(s) = "-"
                      THEN 0 - DigitsValue(body, 0)
                      ELSE DigitsValue(body, 0)]
        ELSE [ok |-> FALSE, val |-> 0]

-----------------------------------------------------------------------------
(* The config file: json.dump(config, f, indent=4) and json.load(f)        *)

Missing == [exists |-> FALSE, text |-> <<>>]
FileOf(text) == [exists |-> TRUE, text |-> text]

TokenKey == <<"t","o","k","e","n">>

\* the value `config` of main(): what json.load returned.  kind "dict": an
\* object that has the key "token" or not; has is `"token" in config`
EmptyConfig == [kind |-> "dict", has |-> FALSE, token |-> <<>>]
ConfigWith(t) == [kind |-> "dict", has |-> TRUE, token |-> t]

\* json.load of the text `null`: None, on which `in` raises TypeError
JsonNull == [kind |-> "null", has |-> FALSE, token |-> <<>>]

\* json.load of an array of at most one string: on a list `in` is membership,
\* and an index or an item assignment by the key "token" raises TypeError
JsonList(has) == [kind |-> "list", has |-> has, token |-> <<>>]

\* EscapeChar that leaves a double quote as it is
EscapeCharNoQuote(c) ==
    CASE c = "\\" -> <<"\\", "\\">>
      [] c = "\n" -> <<"\\", "n">>
      [] c = "\t" -> <<"\\", "t">>
      [] c = "\r" -> <<"\\", "r">>
      [] c = "\f" -> <<"\\", "f">>
      [] OTHER    -> <<c>>

EscapeChar(c) ==
    CASE c = "\"" -> <<"\\", "\"">>
      [] c = "\\" -> <<"\\", "\\">>
      [] c = "\n" -> <<"\\", "n">>
      [] c = "\t" -> <<"\\", "t">>
      [] c = "\r" -> <<"\\", "r">>
      [] c = "\f" -> <<"\\", "f">>
      [] OTHER    -> <<c>>

RECURSIVE Escape(_)
Escape(s) == IF s = <<>> THEN <<>> ELSE EscapeChar(Head(s)) \o Escape(Tail(s))

JsonString(s) == <<"\"">> \o Escape(s) \o <<"\"">>

\* json.dumps(config, indent=4) of a dict with at most the key "token"
JsonDump(c) ==
    IF c.has
    THEN <<"{", "\n", " ", " ", " ", " ">> \o JsonString(TokenKey)
             \o <<":", " ">> \o JsonString(c.token) \o <<"\n", "}">>
    ELSE <<"{", "}">>

RECURSIVE SkipWs(_, _)
SkipWs(s, i) ==
    IF i <= Len(s) /\ s[i] \in {" ", "\n", "\t", "\r"} THEN SkipWs(s, i + 1) ELSE i

Unescaped(e) ==
    CASE e = "n" -> "\n"
      [] e = "t" -> "\t"
      [] e = "r" -> "\r"
      [] e = "f" -> "\f"
      [] OTHER   -> e

\* the decoder's scan of a string literal from the character after its opening
\* quote: [ok, val, next], next the index after the closing quote
RECURSIVE ScanString(_, _, _)
ScanString(s, j, acc) ==
    IF j > Len(s) THEN [ok |-> FALSE, val |-> acc, next |-> j]
    ELSE IF s[j] = "\"" THEN [ok |-> TRUE, val |-> acc, next |-> j + 1]
    ELSE IF s[j] = "\\"
         THEN IF j + 1 <= Len(s) /\ s[j + 1] \in {"\"", "\\", "/", "n", "t", "r", "f"}
              THEN ScanString(s, j + 2, Append(acc, Unescaped(s[j + 1])))
              ELSE [ok |-> FALSE, val |-> acc, next |-> j]
    ELSE IF s[j] \in {"\n", "\t", "\r", "\f"}
         THEN [ok |-> FALSE, val |-> acc, next |-> j]
    ELSE ScanString(s, j + 1, Append(acc, s[j]))

JsonError == [ok |-> FALSE, value |-> EmptyConfig]

NullText == <<"n", "u", "l", "l">>

\* json.loads of a text that does not start an object: `null`, or an array
\* of no element or of one string
JsonLoadOther(s, i) ==
    IF i + 3 <= Len(s) /\ SubSeq(s, i, i + 3) = NullText
    THEN IF SkipWs(s, i + 4) > Len(s)
         THEN [ok |-> TRUE, value |-> JsonNull]
         ELSE JsonError
    ELSE IF s[i] # "[" THEN JsonError
    ELSE LET j == SkipWs(s, i + 1) IN
    IF j > Len(s) THEN JsonError
    ELSE IF s[j] = "]"
         THEN IF SkipWs(s, j + 1) > Len(s)
              THEN [ok |-> TRUE, value |-> JsonList(FALSE)]
              ELSE JsonError
    ELSE IF s[j] # "\"" THEN JsonError
    ELSE LET item == ScanString(s, j + 1, <<>>)
             e    == SkipWs(s, item.next)
         IN
         IF item.ok /\ e <= Len(s) /\ s[e] = "]" /\ SkipWs(s, e + 1) > Len(s)
         THEN [ok |-> TRUE, value |-> JsonList(item.val = TokenKey)]
         ELSE JsonError

\* json.loads of a text: an object with no member, or with the one member
\* "token" whose value is a string; `null`; an array of at most one string.
\* ok = FALSE stands for JSONDecodeError
JsonLoad(s) ==
    LET i == SkipWs(s, 1) IN
    IF i > Len(s) THEN JsonError
    ELSE IF s[i] # "{" THEN JsonLoadOther(s, i)
    ELSE LET j == SkipWs(s, i + 1) IN
    IF j > Len(s) THEN JsonError
    ELSE IF s[j] = "}"
         THEN IF SkipWs(s, j + 1) > Len(s)
              THEN [ok |-> TRUE, value |-> EmptyConfig]
              ELSE JsonError
    ELSE IF s[j] # "\"" THEN JsonError
    ELSE LET key == ScanString(s, j + 1, <<>>)
             k   == SkipWs(s, key.next)
         IN
         IF ~key.ok \/ key.val # TokenKey \/ k > Len(s) \/ s[k] # ":" THEN JsonError
         ELSE LET v == SkipWs(s, k + 1) IN
         IF v > Len(s) \/ s[v] # "\"" THEN JsonError
         ELSE LET val == ScanString(s, v + 1, <<>>)
                  e   == SkipWs(s, val.next)
              IN
              IF val.ok /\ e <= Len(s) /\ s[e] = "}" /\ SkipWs(s, e + 1) > Len(s)
              THEN [ok |-> TRUE, value |-> ConfigWith(val.val)]
              ELSE JsonError

-----------------------------------------------------------------------------
(* The remote service: zones, records, paged listings                      *)

\* the most pages a listing is split over
MaxPages == 2

NoZone == [id |-> "", name |-> ""]
Z1 == [id |-> "z1", name |-> "example.com"]
Z2 == [id |-> "z2", name |-> "test.org"]

\* the zones of the account, in the order the server lists them
ZoneItems == <<Z1, Z2>>

NoRecord == [id |-> "", type |-> <<>>, name |-> <<>>, content |-> <<>>,
             proxied |-> FALSE, comment |-> <<>>, ttl |-> 0]
R1 == [id |-> "r1", type |-> <<"A">>, name |-> <<"w">>, content |-> <<"1">>,
       proxied |-> TRUE, comment |-> <<>>, ttl |-> 1]
R2 == [id |-> "r2", type |-> <<"M", "X">>, name |-> <<"m">>, content |-> <<"2">>,
       proxied |-> FALSE, comment |-> <<"h", "i">>, ttl |-> 30]

\* the records of a zone, in the order the server lists them
RecordItems == <<R1, R2>>

RECURSIVE Concat(_)
Concat(pages) == IF pages = <<>> THEN <<>> ELSE Head(pages) \o Concat(Tail(pages))

Slices(items) == {SubSeq(items, a, b) : a \in 1..Len(items), b \in 1..Len(items)} \ {<<>>}

\* what the server may serve for a listing: nothing (an empty first page), or
\* `items` in order, cut into at most MaxPages pages, none of them empty
Listings(items) ==
    {pages \in UNION {[1..n -> Slices(items)] : n \in 0..MaxPages} :
        pages = <<>> \/ Concat(pages) = items}

-----------------------------------------------------------------------------
(* Pagination: load_all_domains and get_dns_records of __init__.py         *)

\* page.has_next_page() of the k-th page of a listing
HasNextPage(pages, k) == k < Len(pages)

\* The items `zones.extend(page)` adds for the k-th page object.  A page object
\* of the cloudflare client is iterated as main.py iterates it (`for zone in
\* cloudflare.zones.list()` yields every zone of the account): iterating a page
\* yields its items and then those of every page after it.
IterPage(pages, k) ==
    IF k > Len(pages) THEN <<>> ELSE Concat(SubSeq(pages, k, Len(pages)))

\* the loop `while page.has_next_page(): page = page.get_next_page();
\* zones.extend(page)`, with `acc` the list so far and k the current page
RECURSIVE FollowPages(_, _, _)
FollowPages(pages, k, acc) ==
    IF HasNextPage(pages, k)
    THEN FollowPages(pages, k + 1, acc \o IterPage(pages, k + 1))
    ELSE acc

\* the result of load_all_domains / get_dns_records: [] when the remote call
\* raised (failed), else the extended list
PagedList(pages, failed) ==
    IF failed THEN <<>> ELSE FollowPages(pages, 1, IterPage(pages, 1))

load_all_domains(pages, failed) == PagedList(pages, failed)

get_dns_records(pages, failed) == PagedList(pages, failed)

-----------------------------------------------------------------------------
(* Remote calls, as recorded for the last step                             *)

\* ok: the call returned; ~ok: it raised
NoCall == [op |-> "none", zone_id |-> "", id |-> "", data |-> NoRecord, ok |-> TRUE]
Call(op, zone_id, id, data, ok) ==
    [op |-> op, zone_id |-> zone_id, id |-> id, data |-> data, ok |-> ok]

\* Payload that leaves the comment out
PayloadWithoutComment(type, name, content, proxied, comment, ttl) ==
    [id |-> "", type |-> type, name |-> name, content |-> content,
     proxied |-> proxied, comment |-> <<>>, ttl |-> ttl]

\* the keyword arguments of records.create / records.update
Payload(type, name, content, proxied, comment, ttl) ==
    [id |-> "", type |-> type, name |-> name, content |-> content,
     proxied |-> proxied, comment |-> comment, ttl |-> ttl]

-----------------------------------------------------------------------------
(* What the user may type, and what the environment may hold               *)

\* the token the remote service accepts
GoodToken == <<"g">>

TokenInputs == {<<>>, <<" ">>, <<"g">>, <<" ", "g", " ">>, <<"b">>,
                <<"q", "\"">>, <<"\\", "n">>}

\* the config file at startup: absent, written by an earlier run, edited by
\* hand to hold an empty token, not JSON, or JSON that is not an object
InitialFiles ==
    {Missing} \cup
    {FileOf(t) : t \in {JsonDump(EmptyConfig), JsonDump(ConfigWith(GoodToken)),
                        JsonDump(ConfigWith(<<"b">>)), JsonDump(ConfigWith(<<>>)),
                        <<"{">>, NullText, <<"[", "]">>,
                        <<"[">> \o JsonString(TokenKey) \o <<"]">>}}

NoEnv == [set |-> FALSE, value |-> <<>>]
EnvOf(v) == [set |-> TRUE, value |-> v]
EnvTokens == {NoEnv, EnvOf(<<>>), EnvOf(<<" ">>), EnvOf(GoodToken), EnvOf(<<"b">>)}

\* sys.argv[1:]: nothing, or one argument
VersionFlag == <<"-", "-", "v", "e", "r", "s", "i", "o", "n">>
ShortVersionFlag == <<"-", "v">>
HelpFlag == <<"-", "-", "h", "e", "l", "p">>
Argvs == {<<>>, VersionFlag, ShortVersionFlag, HelpFlag}

TypeInputs == {<<" ">>, <<"t", "x", "t">>}
NameInputs == {<<>>, <<" ", "n">>}
ContentInputs == {<<"\t">>, <<"9", " ">>}
ProxiedInputs == {<<" ", "Y", "E", "S">>, <<"y">>}
CommentInputs == {<<>>, <<"h", "i", " ">>}
TtlInputs == {<<"a", "U", "T", "O", " ">>, <<"0">>, <<"-", "5">>,
              <<"3", "0">>, <<"1", ".", "5">>, <<>>}
ConfirmInputs == {<<"y">>, <<" ", "Y", " ">>, <<"n">>, <<>>, <<"y", "e", "s">>}

ZoneListings == Listings(ZoneItems)
RecordListings == Listings(RecordItems)

-----------------------------------------------------------------------------
(* Pure parts of __init__.py                                               *)

\* load_config(): {} when the file is absent, cannot be read or is not JSON
load_config(f, readable) ==
    IF ~f.exists THEN EmptyConfig
    ELSE IF ~readable THEN EmptyConfig
    ELSE IF JsonLoad(f.text).ok THEN JsonLoad(f.text).value
    ELSE EmptyConfig

\* save_config(cfg) that completes: the file holds json.dump(cfg, indent=4)
SavedFile(cfg) == FileOf(JsonDump(cfg))

\* save_config(cfg) that fails (and exits 1): the file as it was when mkdir or
\* open raised, or cut to nothing when the write raised after open(..., "w")
FailedSaveFiles(f) == {f, FileOf(<<>>)}

\* cloudflare_login, lines 71-74: the token of the config, else the trimmed line
LoginToken(cfg, line) == IF cfg.has THEN cfg.token ELSE Strip(line)

\* ClearedConfig without the `del`
ClearedConfigKept(cfg) == cfg

\* cloudflare_login, lines 93-94: `if "token" in config: del config["token"]`
ClearedConfig(cfg) == IF cfg.has THEN EmptyConfig ELSE cfg

\* validate_record_input that never refuses a value
validate_record_input_lax(value, required) == [none |-> FALSE, value |-> value]

\* validate_record_input(field_name, value, required): none stands for None
validate_record_input(value, required) ==
    IF required /\ value = <<>>
    THEN [none |-> TRUE, value |-> <<>>]
    ELSE [none |-> FALSE, value |-> value]

Auto == <<"a", "u", "t", "o">>
Yes == <<"y", "e", "s">>

\* AddTtl without the fallback of lines 177-179: ValueError leaves 0
AddTtlNoFallback(line) ==
    LET ttl_input == Strip(line) IN
    IF Lower(ttl_input) = Auto THEN 1
    ELSE IF ParseInt(ttl_input).ok
         THEN IF ParseInt(ttl_input).val < 1 THEN 1 ELSE ParseInt(ttl_input).val
         ELSE 0

\* add_dns_record, lines 168-179: new_ttl of the line typed
AddTtl(line) ==
    LET ttl_input == Strip(line) IN
    IF Lower(ttl_input) = Auto THEN 1
    ELSE IF ParseInt(ttl_input).ok
         THEN IF ParseInt(ttl_input).val < 1 THEN 1 ELSE ParseInt(ttl_input).val
         ELSE 1

\* EditTtl that falls back to Auto on ValueError, as add_dns_record does
EditTtlFallback(line, old) ==
    LET ttl_input == Strip(line) IN
    IF Lower(ttl_input) = Auto THEN 1
    ELSE IF ParseInt(ttl_input).ok
         THEN IF ParseInt(ttl_input).val < 1 THEN 1 ELSE ParseInt(ttl_input).val
         ELSE 1

\* edit_dns_record, lines 293-305: record.ttl after the line typed
EditTtl(line, old) ==
    LET ttl_input == Strip(line) IN
    IF Lower(ttl_input) = Auto THEN 1
    ELSE IF ParseInt(ttl_input).ok
         THEN IF ParseInt(ttl_input).val < 1 THEN 1 ELSE ParseInt(ttl_input).val
         ELSE old

\* `input(...).strip().lower() == "yes"` of the Proxied prompts
ProxiedOf(line) == Lower(Strip(line)) = Yes

\* DeleteConfirmed with the default reversed: anything but "n" confirms
DeleteConfirmedUnlessNo(line) == Lower(Strip(line)) # <<"n">>

\* delete_dns_record, lines 220-225: the deletion goes ahead
DeleteConfirmed(line) == Lower(Strip(line)) = <<"y">>

-----------------------------------------------------------------------------
(* The menu variant: main() of __init__.py                                 *)

NoDraft == [type |-> <<>>, name |-> <<>>, content |-> <<>>]

Step(name, ins, sel, c, pages) ==
    /\ act' = name
    /\ inputs' = ins
    /\ selected' = sel
    /\ call' = c
    /\ listing' = pages

\* sys.exit(code), or main() returning (code 0)
Exit(code) == pc' = "exited" /\ exitCode' = code

Init ==
    /\ variant \in {"menu", "tui"}
    /\ pc = IF variant = "menu" THEN "main" ELSE "tui"
    /\ exitCode = -1
    /\ file \in (IF variant = "menu" THEN InitialFiles ELSE {Missing})
    /\ config = EmptyConfig
    /\ token = <<>>
    /\ verified = FALSE
    /\ domains = <<>>
    /\ zone = NoZone
    /\ dns_records = <<>>
    /\ record = NoRecord
    /\ draft = NoDraft
    /\ listing = <<>>
    /\ call = NoCall
    /\ act = "init"
    /\ inputs = <<>>
    /\ selected = -1
    /\ screen_stack = <<"_default">>
    /\ cf_instance = "None"
    /\ size_ok \in BOOLEAN
    /\ app_state = (IF variant = "tui" THEN "cli" ELSE "unmounted")
    /\ pending = "none"
    /\ manage_mounted = FALSE
    /\ TOKEN \in (IF variant = "tui" THEN EnvTokens ELSE {NoEnv})
    /\ save_failed = FALSE

\* main(), lines 341-344: the version query
Main ==
    /\ pc = "main"
    /\ \E argv \in Argvs :
        /\ Step("Main", <<argv>>, -1, NoCall, <<>>)
        /\ IF argv \in {VersionFlag, ShortVersionFlag}
           THEN Exit(0)
           ELSE pc' = "load_config" /\ exitCode' = exitCode
    /\ UNCHANGED <<variant, file, config, token, verified, domains, zone,
                   dns_records, record, draft, tuiVars, TOKEN, save_failed>>

\* main(), line 350: config = load_config()
LoadConfig ==
    /\ pc = "load_config"
    /\ \E readable \in BOOLEAN : config' = load_config(file, readable)
    /\ pc' = "login"
    /\ Step("LoadConfig", <<>>, -1, NoCall, <<>>)
    /\ UNCHANGED <<variant, exitCode, file, token, verified, domains, zone,
                   dns_records, record, draft, tuiVars, TOKEN, save_failed>>

\* the lines 71-72 of cloudflare_login raise TypeError: `"token" in None`, or
\* `config["token"]` of a list that holds the string "token"
LoginRaises(cfg) == cfg.kind = "null" \/ (cfg.kind = "list" /\ cfg.has)

\* cloudflare_login, lines 71-83: read the token, refuse an empty one, save a
\* new one.  SystemExit is no Exception: the handler of line 90 does not run.
\* A TypeError of lines 71-72 reaches the handler of main() (lines 371-373);
\* the TypeError of line 82 on a list is caught at line 90, where nothing is
\* saved ("token" is not in the list) before sys.exit(1).
Login ==
    /\ pc = "login"
    /\ \E line \in TokenInputs :
        /\ token' = IF LoginRaises(config) THEN token ELSE LoginToken(config, line)
        /\ Step("Login", IF config.has \/ LoginRaises(config) THEN <<>> ELSE <<line>>,
                -1, NoCall, <<>>)
        /\ IF LoginRaises(config) \/ token' = <<>> \/ config.kind # "dict"
           THEN Exit(1) /\ UNCHANGED <<config, file, save_failed>>
           ELSE IF config.has
           THEN pc' = "verify" /\ UNCHANGED <<config, file, exitCode, save_failed>>
           ELSE /\ config' = ConfigWith(token')
                /\ \/ /\ file' = SavedFile(config')
                      /\ pc' = "verify"
                      /\ UNCHANGED <<exitCode, save_failed>>
                   \/ /\ file' \in FailedSaveFiles(file)
                      /\ save_failed' = TRUE
                      /\ Exit(1)
    /\ UNCHANGED <<variant, verified, domains, zone, dns_records, record, draft,
                   tuiVars, TOKEN>>

\* Verify that goes on to load the domains when the verification failed
VerifyIgnoresFailure ==
    /\ pc = "verify"
    /\ \E ok \in BOOLEAN :
        /\ ok => token = GoodToken
        /\ Step("Verify", <<>>, -1, Call("verify", "", "", NoRecord, ok), <<>>)
        /\ verified' = ok
        /\ pc' = "load_domains"
        /\ UNCHANGED <<config, file, exitCode, save_failed>>
    /\ UNCHANGED <<variant, token, domains, zone, dns_records, record, draft,
                   tuiVars, TOKEN>>

\* cloudflare_login, lines 85-96: verify the token; on failure delete it from
\* the config, save the config and exit 1
Verify ==
    /\ pc = "verify"
    /\ \E ok \in BOOLEAN :
        /\ ok => token = GoodToken
        /\ Step("Verify", <<>>, -1, Call("verify", "", "", NoRecord, ok), <<>>)
        /\ IF ok
           THEN /\ verified' = TRUE
                /\ pc' = "load_domains"
                /\ UNCHANGED <<config, file, exitCode, save_failed>>
           ELSE /\ verified' = FALSE
                /\ config' = ClearedConfig(config)
                /\ IF config.has
                   THEN \/ file' = SavedFile(config') /\ save_failed' = save_failed
                        \/ file' \in FailedSaveFiles(file) /\ save_failed' = TRUE
                   ELSE UNCHANGED <<file, save_failed>>
                /\ Exit(1)
    /\ UNCHANGED <<variant, token, domains, zone, dns_records, record, draft,
                   tuiVars, TOKEN>>

\* main(), lines 352-356: domains = load_all_domains(cf); exit 1 when empty
LoadDomains ==
    /\ pc = "load_domains"
    /\ \E pages \in ZoneListings, failed \in BOOLEAN :
        /\ domains' = load_all_domains(pages, failed)
        /\ Step("LoadDomains", <<>>, -1,
                Call("listZones", "", "", NoRecord, ~failed), pages)
        /\ IF domains' = <<>>
           THEN Exit(1)
           ELSE pc' = "domain_menu" /\ exitCode' = exitCode
    /\ UNCHANGED <<variant, file, config, token, verified, zone, dns_records,
                   record, draft, tuiVars, TOKEN, save_failed>>

\* main(), lines 359-367: the domain menu, domain names then "Exit"
DomainMenu ==
    /\ pc = "domain_menu"
    /\ \E sel \in 0..(Len(domains) + 1) :
        /\ Step("DomainMenu", <<>>, sel, NoCall, <<>>)
        /\ IF sel = 0 \/ sel = Len(domains) + 1
           THEN Exit(0) /\ zone' = zone
           ELSE /\ zone' = domains[sel]
                /\ pc' = "records"
                /\ exitCode' = exitCode
    /\ UNCHANGED <<variant, file, config, token, verified, domains, dns_records,
                   record, draft, tuiVars, TOKEN, save_failed>>

\* manage_dns_records, line 313: dns_records = get_dns_records(cf, zone_id)
GetRecords ==
    /\ pc = "records"
    /\ \E pages \in RecordListings, failed \in BOOLEAN :
        /\ dns_records' = get_dns_records(pages, failed)
        /\ Step("GetRecords", <<>>, -1,
                Call("listRecords", zone.id, "", NoRecord, ~failed), pages)
    /\ pc' = "record_menu"
    /\ UNCHANGED <<variant, exitCode, file, config, token, verified, domains,
                   zone, record, draft, tuiVars, TOKEN, save_failed>>

\* manage_dns_records, lines 315-335: the record menu, the records then
\* "Add Record", "Back", "Exit"
RecordMenu ==
    /\ pc = "record_menu"
    /\ \E sel \in 0..(Len(dns_records) + 3) :
        /\ Step("RecordMenu", <<>>, sel, NoCall, <<>>)
        /\ IF sel = Len(dns_records) + 3
           THEN Exit(0) /\ UNCHANGED <<zone, dns_records, record>>
           ELSE IF sel = 0 \/ sel = Len(dns_records) + 2
           THEN /\ pc' = "domain_menu"
                /\ zone' = NoZone
                /\ dns_records' = <<>>
                /\ UNCHANGED <<exitCode, record>>
           ELSE IF sel = Len(dns_records) + 1
           THEN pc' = "add_type" /\ UNCHANGED <<exitCode, zone, dns_records, record>>
           ELSE /\ record' = dns_records[sel]
                /\ pc' = "edit_menu"
                /\ UNCHANGED <<exitCode, zone, dns_records>>
    /\ UNCHANGED <<variant, file, config, token, verified, domains, draft,
                   tuiVars, TOKEN, save_failed>>

\* add_dns_record, lines 149-153: the type prompt
AddType ==
    /\ pc = "add_type"
    /\ \E line \in TypeInputs :
        LET new_type == validate_record_input(Upper(Strip(line)), TRUE) IN
        /\ Step("AddType", <<line>>, -1, NoCall, <<>>)
        /\ IF new_type.none
           THEN pc' = "records" /\ draft' = NoDraft
           ELSE pc' = "add_name" /\ draft' = [draft EXCEPT !.type = new_type.value]
    /\ UNCHANGED <<variant, exitCode, file, config, token, verified, domains,
                   zone, dns_records, record, tuiVars, TOKEN, save_failed>>

\* AddName that asks for the name again when it is refused
AddNameAsksAgain ==
    /\ pc = "add_name"
    /\ \E line \in NameInputs :
        LET new_name == validate_record_input(Strip(line), TRUE) IN
        /\ Step("AddName", <<line>>, -1, NoCall, <<>>)
        /\ IF new_name.none
           THEN pc' = "add_name" /\ draft' = draft
           ELSE pc' = "add_content" /\ draft' = [draft EXCEPT !.name = new_name.value]
    /\ UNCHANGED <<variant, exitCode, file, config, token, verified, domains,
                   zone, dns_records, record, tuiVars, TOKEN, save_failed>>

\* add_dns_record, lines 155-157: the name prompt
AddName ==
    /\ pc = "add_name"
    /\ \E line \in NameInputs :
        LET new_name == validate_record_input(Strip(line), TRUE) IN
        /\ Step("AddName", <<line>>, -1, NoCall, <<>>)
        /\ IF new_name.none
           THEN pc' = "records" /\ draft' = NoDraft
           ELSE pc' = "add_content" /\ draft' = [draft EXCEPT !.name = new_name.value]
    /\ UNCHANGED <<variant, exitCode, file, config, token, verified, domains,
                   zone, dns_records, record, tuiVars, TOKEN, save_failed>>

\* add_dns_record, lines 159-163: the content prompt
AddContent ==
    /\ pc = "add_content"
    /\ \E line \in ContentInputs :
        LET new_content == validate_record_input(Strip(line), TRUE) IN
        /\ Step("AddContent", <<line>>, -1, NoCall, <<>>)
        /\ IF new_content.none
           THEN pc' = "records" /\ draft' = NoDraft
           ELSE /\ pc' = "add_rest"
                /\ draft' = [draft EXCEPT !.content = new_content.value]
    /\ UNCHANGED <<variant, exitCode, file, config, token, verified, domains,
                   zone, dns_records, record, tuiVars, TOKEN, save_failed>>

\* add_dns_record, lines 165-195: the proxied, comment and TTL prompts, then
\* the one records.create call; True or False, the record menu loop goes on
AddRest ==
    /\ pc = "add_rest"
    /\ \E p \in ProxiedInputs, c \in CommentInputs, t \in TtlInputs, ok \in BOOLEAN :
        Step("AddRest", <<p, c, t>>, -1,
             Call("create", zone.id, "",
                  Payload(draft.type, draft.name, draft.content,
                          ProxiedOf(p), Strip(c), AddTtl(t)), ok),
             <<>>)
    /\ pc' = "records"
    /\ draft' = NoDraft
    /\ UNCHANGED <<variant, exitCode, file, config, token, verified, domains,
                   zone, dns_records, record, tuiVars, TOKEN, save_failed>>

\* what every step of edit_dns_record leaves alone
EditFrame ==
    UNCHANGED <<variant, file, config, token, verified, domains, zone,
                dns_records, draft, tuiVars, TOKEN, save_failed>>

\* EditReturn that shows the record menu with the list already fetched
EditReturnToMenu == pc' = "record_menu" /\ record' = NoRecord /\ exitCode' = exitCode

\* edit_dns_record returns: manage_dns_records loops and lists again
EditReturn == pc' = "records" /\ record' = NoRecord /\ exitCode' = exitCode

\* the loop of edit_dns_record shows the menu again, the draft as given
EditStay(r) == pc' = "edit_menu" /\ record' = r /\ exitCode' = exitCode

\* edit_dns_record, lines 262-263: "Exit"
EditExit ==
    /\ pc = "edit_menu"
    /\ Step("EditExit", <<>>, 10, NoCall, <<>>)
    /\ Exit(0)
    /\ record' = record
    /\ EditFrame

\* edit_dns_record, lines 256-258 and 264-265: no selection, or "Back"
EditBack ==
    /\ pc = "edit_menu"
    /\ \E sel \in {0, 9} : Step("EditBack", <<>>, sel, NoCall, <<>>)
    /\ EditReturn
    /\ EditFrame

\* edit_dns_record, lines 266-268, and delete_dns_record
EditDelete ==
    /\ pc = "edit_menu"
    /\ \E line \in ConfirmInputs, ok \in BOOLEAN :
        IF ~DeleteConfirmed(line)
        THEN /\ Step("EditDelete", <<line>>, 8, NoCall, <<>>)
             /\ EditStay(record)
        ELSE /\ Step("EditDelete", <<line>>, 8,
                     Call("delete", zone.id, record.id, NoRecord, ok), <<>>)
             /\ IF ok THEN EditReturn ELSE EditStay(record)
    /\ EditFrame

\* EditSave that leaves the record screen when the update failed
EditSaveLeavesOnFailure ==
    /\ pc = "edit_menu"
    /\ \E ok \in BOOLEAN :
        /\ Step("EditSave", <<>>, 7,
                Call("update", zone.id, record.id,
                     Payload(record.type, record.name, record.content,
                             record.proxied, record.comment, record.ttl), ok),
                <<>>)
        /\ EditReturn
    /\ EditFrame

\* edit_dns_record, lines 269-271, and update_dns_record
EditSave ==
    /\ pc = "edit_menu"
    /\ \E ok \in BOOLEAN :
        /\ Step("EditSave", <<>>, 7,
                Call("update", zone.id, record.id,
                     Payload(record.type, record.name, record.content,
                             record.proxied, record.comment, record.ttl), ok),
                <<>>)
        /\ IF ok THEN EditReturn ELSE EditStay(record)
    /\ EditFrame

\* edit_dns_record, lines 272-277: "Type: ..."
EditType ==
    /\ pc = "edit_menu"
    /\ \E line \in TypeInputs :
        LET new_value == validate_record_input(Upper(Strip(line)), TRUE) IN
        /\ Step("EditType", <<line>>, 1, NoCall, <<>>)
        /\ EditStay(IF new_value.none THEN record
                    ELSE [record EXCEPT !.type = new_value.value])
    /\ EditFrame

\* edit_dns_record, lines 278-281: "Name: ..."
EditName ==
    /\ pc = "edit_menu"
    /\ \E line \in NameInputs :
        LET new_value == validate_record_input(Strip(line), TRUE) IN
        /\ Step("EditName", <<line>>, 2, NoCall, <<>>)
        /\ EditStay(IF new_value.none THEN record
                    ELSE [record EXCEPT !.name = new_value.value])
    /\ EditFrame

\* edit_dns_record, lines 282-287: "Content: ..."
EditContent ==
    /\ pc = "edit_menu"
    /\ \E line \in ContentInputs :
        LET new_value == validate_record_input(Strip(line), TRUE) IN
        /\ Step("EditContent", <<line>>, 3, NoCall, <<>>)
        /\ EditStay(IF new_value.none THEN record
                    ELSE [record EXCEPT !.content = new_value.value])
    /\ EditFrame

\* edit_dns_record, lines 288-289: "Proxied: ..."
EditProxied ==
    /\ pc = "edit_menu"
    /\ \E line \in ProxiedInputs :
        /\ Step("EditProxied", <<line>>, 4, NoCall, <<>>)
        /\ EditStay([record EXCEPT !.proxied = ProxiedOf(line)])
    /\ EditFrame

\* edit_dns_record, lines 290-291: "Comment: ..."
EditComment ==
    /\ pc = "edit_menu"
    /\ \E line \in CommentInputs :
        /\ Step("EditComment", <<line>>, 5, NoCall, <<>>)
        /\ EditStay([record EXCEPT !.comment = Strip(line)])
    /\ EditFrame

\* edit_dns_record, lines 292-305: "TTL: ..."
EditTTL ==
    /\ pc = "edit_menu"
    /\ \E line \in TtlInputs :
        /\ Step("EditTTL", <<line>>, 6, NoCall, <<>>)
        /\ EditStay([record EXCEPT !.ttl = EditTtl(line, record.ttl)])
    /\ EditFrame

MenuNext ==
    \/ Main \/ LoadConfig \/ Login \/ Verify \/ LoadDomains \/ DomainMenu
    \/ GetRecords \/ RecordMenu
    \/ AddType \/ AddName \/ AddContent \/ AddRest
    \/ EditExit \/ EditBack \/ EditDelete \/ EditSave
    \/ EditType \/ EditName \/ EditContent \/ EditProxied \/ EditComment \/ EditTTL

-----------------------------------------------------------------------------
(* The TUI variant: cli(), CFDNSEditApp and the screens of main.py         *)

\* the most screens the stack holds: no screen is pushed beyond it
MaxStack == 6

Top == screen_stack[Len(screen_stack)]
Push(stack, name) == Append(stack, name)
Pop(stack) == SubSeq(stack, 1, Len(stack) - 1)

\* ApiTokenValidator().validate(value) == ValidationResult.success()
TokenValid(value) == Strip(value) # <<>>

\* on_mount, line 807: `TOKEN and ApiTokenValidator().validate(TOKEN) == success`
EnvTokenUsable(env) == env.set /\ env.value # <<>> /\ TokenValid(env.value)

\* FirstScreen that shows the login screen whatever the verification gave
FirstScreenAlwaysLogin(ok) == "login"

\* on_mount, lines 808-819: the screen pushed after verify() of TOKEN
FirstScreen(ok) == IF ok THEN "manage" ELSE "login"

\* load_all_domains of main.py: `for zone in cloudflare.zones.list()`, [] when
\* the call raised
tui_load_all_domains(pages, failed) == IF failed THEN <<>> ELSE IterPage(pages, 1)

\* get_dns_records of main.py: `for record in cloudflare.dns.records.list(...)`
tui_get_dns_records(pages, failed) == IF failed THEN <<>> ELSE IterPage(pages, 1)

\* CheckScreenSize that pops whatever screen is on top once the terminal is
\* large enough
CheckScreenSizePopsAny(stack, ok) ==
    IF ~ok
    THEN IF stack[Len(stack)] # "screen_too_small"
         THEN Push(stack, "screen_too_small")
         ELSE stack
    ELSE Pop(stack)

\* _check_screen_size: the stack after it, for a terminal that is large
\* enough (ok) or not
CheckScreenSize(stack, ok) ==
    IF ~ok
    THEN IF stack[Len(stack)] # "screen_too_small"
         THEN Push(stack, "screen_too_small")
         ELSE stack
    ELSE IF stack[Len(stack)] = "screen_too_small" THEN Pop(stack) ELSE stack

\* AfterLogin that goes on to the domain list whatever verify_token returned
AfterLoginAlways(stack, success) == Push(stack, "manage")

\* handle_login, lines 198-206: push "manage" on success, else stay
AfterLogin(stack, success) == IF success THEN Push(stack, "manage") ELSE stack

\* The Mount event a push leaves due.  "manage" is an installed screen
\* (SCREENS): one instance, mounted the first time it is pushed and kept when
\* popped; a DnsManagementScreen is made and mounted by each push.
PendingAfterPush(name, mounted) ==
    IF name = "manage" /\ ~mounted THEN "manage"
    ELSE IF name = "dns" THEN "dns"
    ELSE "none"

\* action_logout, lines 377-380: pop down to one screen, push "login" unless
\* that screen is the login screen
LoggedOut(stack) ==
    IF stack[1] # "login" THEN Push(<<stack[1]>>, "login") ELSE <<stack[1]>>

\* App.exit(): run() returns and cli() ends, the process exit code being 0
TuiExit == app_state' = "exited" /\ exitCode' = 0

TuiFrame ==
    UNCHANGED <<variant, pc, file, config, token, record, draft, TOKEN,
                save_failed>>

\* what a step that loads no list leaves alone
TuiLists == UNCHANGED <<domains, zone, dns_records>>

\* a handler of the running app, no Mount event being due
TuiReady == variant = "tui" /\ app_state = "running" /\ pending = "none"

\* cli(), lines 878-888: click knows the flags --version and --help; any other
\* option is a usage error (exit code 2); without arguments the app runs
TuiCli ==
    /\ variant = "tui"
    /\ app_state = "cli"
    /\ \E argv \in Argvs :
        /\ Step("TuiCli", <<argv>>, -1, NoCall, <<>>)
        /\ IF argv = <<>>
           THEN app_state' = "unmounted" /\ exitCode' = exitCode
           ELSE /\ app_state' = "exited"
                /\ exitCode' = IF argv \in {VersionFlag, HelpFlag} THEN 0 ELSE 2
    /\ UNCHANGED <<screen_stack, cf_instance, size_ok, pending, manage_mounted,
                   verified>>
    /\ TuiLists
    /\ TuiFrame

\* CFDNSEditApp.on_mount
TuiOnMount ==
    /\ variant = "tui"
    /\ app_state = "unmounted"
    /\ app_state' = "running"
    /\ LET checked == CheckScreenSize(screen_stack, size_ok) IN
       IF EnvTokenUsable(TOKEN)
       THEN \E ok \in BOOLEAN :
              /\ ok => TOKEN.value = GoodToken
              /\ Step("TuiOnMount", <<>>, -1,
                      Call("verify", "", "", NoRecord, ok), <<>>)
              /\ cf_instance' = IF ok THEN "client" ELSE "None"
              /\ verified' = ok
              /\ screen_stack' = Push(checked, FirstScreen(ok))
              /\ pending' = PendingAfterPush(FirstScreen(ok), manage_mounted)
       ELSE /\ Step("TuiOnMount", <<>>, -1, NoCall, <<>>)
            /\ screen_stack' = Push(checked, "login")
            /\ UNCHANGED <<cf_instance, verified, pending>>
    /\ UNCHANGED <<size_ok, exitCode, manage_mounted>>
    /\ TuiLists
    /\ TuiFrame

\* CFDNSEditApp.on_resize
TuiResize ==
    /\ TuiReady
    /\ Len(screen_stack) < MaxStack
    /\ \E ok \in BOOLEAN :
        /\ size_ok' = ok
        /\ screen_stack' = CheckScreenSize(screen_stack, ok)
    /\ Step("TuiResize", <<>>, -1, NoCall, <<>>)
    /\ UNCHANGED <<cf_instance, app_state, exitCode, pending, manage_mounted,
                   verified>>
    /\ TuiLists
    /\ TuiFrame

\* LoginScreen.handle_login with verify_token: the login button, Enter
TuiHandleLogin ==
    /\ TuiReady
    /\ Top = "login"
    /\ \E value \in TokenInputs, ok \in BOOLEAN :
        IF ~TokenValid(value)
        THEN /\ Step("TuiHandleLogin", <<value>>, -1, NoCall, <<>>)
             /\ UNCHANGED <<screen_stack, cf_instance, verified, pending>>
        ELSE /\ ok => (value = GoodToken /\ Len(screen_stack) < MaxStack)
             /\ Step("TuiHandleLogin", <<value>>, -1,
                     Call("verify", "", "", NoRecord, ok), <<>>)
             /\ cf_instance' = IF ok THEN "client" ELSE "None"
             /\ verified' = ok
             /\ screen_stack' = AfterLogin(screen_stack, ok)
             /\ pending' = IF screen_stack' = screen_stack THEN "none"
                           ELSE PendingAfterPush("manage", manage_mounted)
    /\ UNCHANGED <<size_ok, app_state, exitCode, manage_mounted>>
    /\ TuiLists
    /\ TuiFrame

\* DomainManagementScreen.load_domains: on_mount (the Mount event of the
\* "manage" screen) and action_refresh_domains (the key r)
TuiLoadDomains ==
    /\ variant = "tui"
    /\ app_state = "running"
    /\ pending = "manage" \/ (pending = "none" /\ Top = "manage")
    /\ IF cf_instance = "None"
       THEN /\ Len(screen_stack) < MaxStack
            /\ screen_stack' = Push(screen_stack, "login")
            /\ domains' = domains
            /\ Step("TuiLoadDomains", <<>>, -1, NoCall, <<>>)
       ELSE \E pages \in ZoneListings, failed \in BOOLEAN :
            /\ domains' = tui_load_all_domains(pages, failed)
            /\ screen_stack' = screen_stack
            /\ Step("TuiLoadDomains", <<>>, -1,
                    Call("listZones", "", "", NoRecord, ~failed), pages)
    /\ pending' = "none"
    /\ manage_mounted' = TRUE
    /\ UNCHANGED <<cf_instance, size_ok, app_state, exitCode, verified, zone,
                   dns_records>>
    /\ TuiFrame

\* DnsManagementScreen.load_dns_records: on_mount (the Mount event of the
\* screen pushed) and action_refresh_records (the key r)
TuiLoadRecords ==
    /\ variant = "tui"
    /\ app_state = "running"
    /\ pending = "dns" \/ (pending = "none" /\ Top = "dns")
    /\ IF cf_instance = "None"
       THEN /\ Len(screen_stack) < MaxStack
            /\ screen_stack' = Push(screen_stack, "login")
            /\ dns_records' = dns_records
            /\ Step("TuiLoadRecords", <<>>, -1, NoCall, <<>>)
       ELSE \E pages \in RecordListings, failed \in BOOLEAN :
            /\ dns_records' = tui_get_dns_records(pages, failed)
            /\ screen_stack' = screen_stack
            /\ Step("TuiLoadRecords", <<>>, -1,
                    Call("listRecords", zone.id, "", NoRecord, ~failed), pages)
    /\ pending' = "none"
    /\ UNCHANGED <<cf_instance, size_ok, app_state, exitCode, verified, zone,
                   domains, manage_mounted>>
    /\ TuiFrame

\* TuiEditDomain that opens the first domain whatever option is highlighted
TuiEditDomainFirst ==
    /\ TuiReady
    /\ Top = "manage"
    /\ Len(screen_stack) < MaxStack
    /\ \E button \in BOOLEAN,
          i \in (IF domains = <<>> THEN {0} ELSE 1..Len(domains)) :
        /\ Step("TuiEditDomain", <<>>, i, NoCall, <<>>)
        /\ IF button /\ cf_instance = "None"
           THEN /\ screen_stack' = Push(screen_stack, "login")
                /\ UNCHANGED <<zone, pending>>
           ELSE IF i = 0
           THEN UNCHANGED <<screen_stack, zone, pending>>
           ELSE /\ zone' = domains[1]
                /\ screen_stack' = Push(screen_stack, "dns")
                /\ pending' = PendingAfterPush("dns", manage_mounted)
    /\ UNCHANGED <<cf_instance, size_ok, app_state, exitCode, verified, domains,
                   dns_records, manage_mounted>>
    /\ TuiFrame

\* DomainManagementScreen.action_edit_domain (the key e) and the button
\* "edit" (on_button_pressed, lines 342-368): i is the highlighted option, 0
\* when the list holds no domain ("No domains found" has no id)
TuiEditDomain ==
    /\ TuiReady
    /\ Top = "manage"
    /\ Len(screen_stack) < MaxStack
    /\ \E button \in BOOLEAN,
          i \in (IF domains = <<>> THEN {0} ELSE 1..Len(domains)) :
        /\ Step("TuiEditDomain", <<>>, i, NoCall, <<>>)
        /\ IF button /\ cf_instance = "None"
           THEN /\ screen_stack' = Push(screen_stack, "login")
                /\ UNCHANGED <<zone, pending>>
           ELSE IF i = 0
           THEN UNCHANGED <<screen_stack, zone, pending>>
           ELSE /\ zone' = domains[i]
                /\ screen_stack' = Push(screen_stack, "dns")
                /\ pending' = PendingAfterPush("dns", manage_mounted)
    /\ UNCHANGED <<cf_instance, size_ok, app_state, exitCode, verified, domains,
                   dns_records, manage_mounted>>
    /\ TuiFrame

\* DomainManagementScreen.action_about (the key a) and the button "about-btn"
\* (on_button_pressed, lines 337-345)
TuiAbout ==
    /\ TuiReady
    /\ Top = "manage"
    /\ Len(screen_stack) + 1 < MaxStack
    /\ \E button \in BOOLEAN :
        screen_stack' = IF button /\ cf_instance = "None"
                        THEN Push(Push(screen_stack, "about"), "login")
                        ELSE Push(screen_stack, "about")
    /\ Step("TuiAbout", <<>>, -1, NoCall, <<>>)
    /\ UNCHANGED <<cf_instance, size_ok, app_state, exitCode, pending,
                   manage_mounted, verified>>
    /\ TuiLists
    /\ TuiFrame

\* The key l on a screen shown after login.  DomainManagementScreen binds it
\* to action_logout (as the button "logout-btn", lines 339-345); AboutScreen
\* binds it to action_login, which pushes "login"; DnsManagementScreen has no
\* binding for it and no logout button, so nothing happens there.
TuiKeyL ==
    /\ TuiReady
    /\ Top \in {"manage", "about", "dns"}
    /\ Len(screen_stack) < MaxStack
    /\ \E button \in BOOLEAN :
        screen_stack' =
            CASE Top = "manage" ->
                     IF button /\ cf_instance = "None"
                     THEN Push(LoggedOut(screen_stack), "login")
                     ELSE LoggedOut(screen_stack)
              [] Top = "about" -> Push(screen_stack, "login")
              [] Top = "dns"   -> screen_stack
    /\ Step("TuiKeyL", <<>>, -1, NoCall, <<>>)
    /\ UNCHANGED <<cf_instance, size_ok, app_state, exitCode, pending,
                   manage_mounted, verified>>
    /\ TuiLists
    /\ TuiFrame

\* DnsManagementScreen.action_back_to_domains (escape) and the button
\* "back-btn" (on_button_pressed, lines 556-564)
TuiBackToDomains ==
    /\ TuiReady
    /\ Top = "dns"
    /\ \E button \in BOOLEAN :
        IF button /\ cf_instance = "None"
        THEN /\ Len(screen_stack) < MaxStack
             /\ screen_stack' = Push(screen_stack, "login")
             /\ UNCHANGED <<zone, dns_records>>
        ELSE /\ screen_stack' = Pop(screen_stack)
             /\ zone' = NoZone
             /\ dns_records' = <<>>
    /\ Step("TuiBackToDomains", <<>>, -1, NoCall, <<>>)
    /\ UNCHANGED <<cf_instance, size_ok, app_state, exitCode, pending,
                   manage_mounted, verified, domains>>
    /\ TuiFrame

\* DnsManagementScreen.action_add_record, action_edit_record and
\* action_delete_record (the keys a, e, d and their buttons): a notification
\* at most, no remote call
TuiRecordAction ==
    /\ TuiReady
    /\ Top = "dns"
    /\ \E i \in 0..Len(dns_records) : Step("TuiRecordAction", <<>>, i, NoCall, <<>>)
    /\ UNCHANGED <<screen_stack, cf_instance, size_ok, app_state, exitCode,
                   pending, manage_mounted, verified>>
    /\ TuiLists
    /\ TuiFrame

\* CFDNSEditApp.action_pop_screen: escape on the login, domain and about
\* screens, left where the screen does not bind it (DnsManagementScreen binds
\* both keys to actions of its own)
TuiPopScreen ==
    /\ TuiReady
    /\ Top # "dns"
    /\ IF Top \in {"login", "manage"} \/ Len(screen_stack) <= 1
       THEN TuiExit /\ screen_stack' = screen_stack
       ELSE /\ screen_stack' = Pop(screen_stack)
            /\ UNCHANGED <<app_state, exitCode>>
    /\ Step("TuiPopScreen", <<>>, -1, NoCall, <<>>)
    /\ UNCHANGED <<cf_instance, size_ok, pending, manage_mounted, verified>>
    /\ TuiLists
    /\ TuiFrame

\* CFDNSEditApp.action_quit: ctrl+c anywhere, escape on ScreenTooSmall
TuiQuit ==
    /\ TuiReady
    /\ TuiExit
    /\ Step("TuiQuit", <<>>, -1, NoCall, <<>>)
    /\ UNCHANGED <<screen_stack, cf_instance, size_ok, pending, manage_mounted,
                   verified>>
    /\ TuiLists
    /\ TuiFrame

TuiNext ==
    \/ TuiCli \/ TuiOnMount \/ TuiResize \/ TuiHandleLogin
    \/ TuiLoadDomains \/ TuiLoadRecords \/ TuiEditDomain \/ TuiAbout \/ TuiKeyL
    \/ TuiBackToDomains \/ TuiRecordAction \/ TuiPopScreen \/ TuiQuit

Next == MenuNext \/ TuiNext

Spec == Init /\ [][Next]_vars

-----------------------------------------------------------------------------
(* Claims                                                                  *)

\* C1: after load_all_domains or get_dns_records whose remote calls all
\* returned, the list is exactly the concatenation of the pages served, in
\* order, each item once.
C1_ListIsConcatenationOfPages ==
    /\ (act = "LoadDomains" /\ call.ok) => domains = Concat(listing)
    /\ (act = "GetRecords" /\ call.ok) => dns_records = Concat(listing)

\* the confirmation lines that are "y" once trimmed, in any letter case
AffirmativeInputs == {<<"y">>, <<" ", "Y", " ">>}

\* C2: a confirmation other than "y" (trimmed, case-insensitive) cancels the
\* deletion: no remote call, and the edit menu stays open; a delete call is
\* issued only by the Delete option after an affirmative "y", for the record
\* being edited.
C2_DeleteOnlyAfterYes ==
    /\ (act = "EditDelete" /\ inputs[1] \notin AffirmativeInputs)
          => (call = NoCall /\ pc = "edit_menu")
    /\ call.op = "delete"
          => (act = "EditDelete" /\ inputs[1] \in AffirmativeInputs)

C2_Witness ==
    /\ act = "EditDelete"
    /\ inputs = << <<"y", "e", "s">> >>
    /\ call = NoCall
    /\ pc = "edit_menu"
    /\ record.id = "r1"

\* what the claim says the TTL option does with each line typed
TtlExpected(line, old) ==
    CASE line = <<"a", "U", "T", "O", " ">> -> 1
      [] line = <<"0">>                     -> 1
      [] line = <<"-", "5">>                -> 1
      [] line = <<"3", "0">>                -> 30
      [] line = <<"1", ".", "5">>           -> old
      [] line = <<>>                        -> old

\* C3: the TTL option of edit_dns_record sets the draft TTL to 1 for "Auto"
\* in any case and for an integer below 1, to the integer for a positive
\* integer, and leaves it (and the rest of the draft) as it was otherwise.
C3_EditTtlParsing ==
    [][act' = "EditTTL"
          => record' = [record EXCEPT !.ttl = TtlExpected(inputs'[1], record.ttl)]]_vars

C3_Witness ==
    /\ act = "EditTTL"
    /\ inputs = << <<"1", ".", "5">> >>
    /\ record.id = "r1"
    /\ record.ttl = 30

\* the TTL lines that are neither an integer nor "Auto"
InvalidTtlInputs == {<<"1", ".", "5">>, <<>>}

\* C4 as stated: a TTL that is neither a number nor "Auto" is rejected in
\* add_dns_record and no create call is made.
C4_InvalidTtlMakesNoCreate ==
    (act = "AddRest" /\ inputs[3] \in InvalidTtlInputs) => call.op # "create"

\* C4 amended: a TTL that is neither a number nor "Auto" is replaced by the
\* sentinel 1 (Auto) in add_dns_record, and the one create call is made with
\* ttl = 1.
C4_InvalidTtlCreatesWithAuto ==
    (act = "AddRest" /\ inputs[3] \in InvalidTtlInputs)
        => (call.op = "create" /\ call.data.ttl = 1)

C4_Witness ==
    /\ act = "AddRest"
    /\ inputs[3] = <<"1", ".", "5">>
    /\ call.op = "create"
    /\ call.data.ttl = 1

\* the lines that are empty once trimmed
BlankInputs == {<<>>, <<" ">>, <<" ", " ">>, <<"\t">>}

\* C5: every create call carries a non-empty type, name and content and a
\* TTL >= 1; an empty (or whitespace-only) type, name or content makes
\* add_dns_record return without a remote call.
C5_CreateCarriesRequiredFields ==
    /\ call.op = "create"
          => /\ act = "AddRest"
             /\ call.data.type # <<>>
             /\ call.data.name # <<>>
             /\ call.data.content # <<>>
             /\ call.data.ttl >= 1
    /\ (act \in {"AddType", "AddName", "AddContent"} /\ inputs[1] \in BlankInputs)
          => (call = NoCall /\ pc = "records")

C5_Witness ==
    /\ call.op = "create"
    /\ inputs[3] = <<"-", "5">>
    /\ call.data.ttl = 1
    /\ call.data.type = <<"T", "X", "T">>
    /\ call.data.name = <<"n">>
    /\ call.data.content = <<"9">>

\* C6 as stated: after an empty name, add_dns_record is at the name prompt
\* again, no remote call made.
C6_EmptyNameAsksAgain ==
    (act = "AddName" /\ inputs[1] \in BlankInputs)
        => (call = NoCall /\ pc = "add_name")

\* C6 amended: an empty name makes add_dns_record return without a remote
\* call and without asking again; the next step of the program is
\* manage_dns_records listing the records of the zone again (listRecords).
C6_EmptyNameReturnsToRecordList ==
    [][/\ (act' = "AddName" /\ inputs'[1] \in BlankInputs)
             => (call' = NoCall /\ pc' = "records" /\ draft' = NoDraft)
       /\ (act = "AddName" /\ inputs[1] \in BlankInputs)
             => (act' = "GetRecords" /\ call'.op = "listRecords"
                   /\ call'.zone_id = zone.id)]_vars

C6_Witness ==
    /\ act = "AddName"
    /\ inputs = << <<>> >>
    /\ pc = "records"
    /\ call = NoCall

\* the config file is a JSON object with a "token" member
FileHasToken ==
    /\ file.exists
    /\ JsonLoad(file.text).ok
    /\ JsonLoad(file.text).value.kind = "dict"
    /\ JsonLoad(file.text).value.has

\* C7: when cloudflare_login ends the process because the token is empty or
\* fails verification, the token the config held (loaded from the file or
\* just saved) is no longer in the config file (every save having completed).
C7_FailedLoginClearsStoredToken ==
    /\ (pc = "exited" /\ act = "Login" /\ config.has /\ ~save_failed)
          => ~FileHasToken
    /\ (pc = "exited" /\ act = "Verify" /\ ~save_failed)
          => ~FileHasToken

\* C8 as stated: a token typed at the login prompt that fails verification
\* brings the login prompt back, in the menu variant and in the TUI variant.
C8_FailedLoginPromptsAgain ==
    [][/\ (act = "Login" /\ inputs # <<>> /\ act' = "Verify" /\ ~call'.ok)
             => (pc' = "login" /\ exitCode' = -1)
       /\ (act' = "TuiHandleLogin" /\ call'.op = "verify" /\ ~call'.ok)
             => (Top' = "login" /\ app_state' = "running")]_vars

\* C8 amended: in the TUI variant a token that fails verification leaves the
\* login screen active and the app running (cf_instance None); in the menu
\* variant cloudflare_login ends the process with exit code 1.
C8_FailedLoginTuiStaysMenuExits ==
    [][/\ (act = "Login" /\ inputs # <<>> /\ act' = "Verify" /\ ~call'.ok)
             => (pc' = "exited" /\ exitCode' = 1)
       /\ (act' = "TuiHandleLogin" /\ call'.op = "verify" /\ ~call'.ok)
             => (/\ Top' = "login"
                 /\ app_state' = "running"
                 /\ screen_stack' = screen_stack
                 /\ cf_instance' = "None")]_vars

C8_Witness ==
    /\ variant = "tui"
    /\ act = "TuiHandleLogin"
    /\ inputs = << <<"b">> >>
    /\ call.op = "verify"
    /\ ~call.ok
    /\ Top = "login"
    /\ app_state = "running"

\* C9 as stated: the config file gets a token, or comes into being, only
\* once the token has passed verification.
C9_TokenWrittenOnlyAfterVerification ==
    [][((file' # file /\ FileHasToken') \/ (~file.exists /\ file'.exists))
          => verified']_vars

\* C9 amended: cloudflare_login saves a newly entered token before it is
\* verified; a successful verification leaves the file holding the verified
\* token; a failed one rewrites the file as an object without a token (so a
\* file exists afterwards); a login refused for an empty token writes nothing.
C9_TokenSavedBeforeVerification ==
    [][/\ (act' = "Login" /\ inputs' # <<>> /\ pc' = "verify")
             => (file' = FileOf(JsonDump(ConfigWith(token'))) /\ ~verified')
       /\ (act' = "Login" /\ pc' = "exited" /\ ~save_failed') => file' = file
       /\ (act' = "Verify" /\ call'.ok)
             => (/\ file' = file
                 /\ FileHasToken'
                 /\ JsonLoad(file'.text).value.token = token')
       /\ (act' = "Verify" /\ ~call'.ok /\ ~save_failed')
             => file' = FileOf(<<"{", "}">>)]_vars

C9_Witness ==
    /\ act = "Login"
    /\ inputs = << <<"b">> >>
    /\ pc = "verify"
    /\ ~verified
    /\ FileHasToken
    /\ JsonLoad(file.text).value.token = <<"b">>

\* C10: load_config() of the file a completed save_config({"token": T}) wrote
\* returns a config whose token is T; load_config() returns the empty config
\* when there is no file.
C10_TokenRoundTrip ==
    /\ (act = "Login" /\ inputs # <<>> /\ pc = "verify")
          => (token # <<>> /\ load_config(file, TRUE) = ConfigWith(token))
    /\ (act = "LoadConfig" /\ ~file.exists) => config = EmptyConfig

C10_Witness ==
    /\ act = "Login"
    /\ pc = "verify"
    /\ token = <<"q", "\"">>
    /\ file.exists
    /\ load_config(file, TRUE).token = <<"q", "\"">>

\* the config file is in one of the states that yield no usable object: it is
\* missing, it could not be read (load_config returned {} for a file that
\* holds something else), it is not JSON, or its JSON is not an object
ConfigFileUnusable ==
    \/ ~file.exists
    \/ ~JsonLoad(file.text).ok
    \/ JsonLoad(file.text).value.kind # "dict"
    \/ config # JsonLoad(file.text).value

\* C11: after load_config found the config file missing, unreadable, not
\* JSON or not a JSON object, cloudflare_login asks for a token, and the
\* process ends there only for an empty token typed or a failed save.
C11_ConfigErrorIsNoStoredToken ==
    [][(act = "LoadConfig" /\ ConfigFileUnusable /\ act' = "Login")
          => /\ inputs' # <<>>
             /\ pc' = "exited" => (token' = <<>> \/ save_failed')]_vars

\* C12: when the listZones call of load_all_domains fails, the list is empty
\* and the process goes on.
C12_ListZonesFailureIsNotFatal ==
    (act = "LoadDomains" /\ ~call.ok) => (domains = <<>> /\ pc # "exited")

\* C13: a failed update or delete leaves edit_dns_record at its menu with the
\* draft as it was, the process running, and the next step a new selection
\* of the user; a failed create returns to manage_dns_records, whose next
\* step lists the records; no step issues a second call.
C13_FailedMutationStaysNoRetry ==
    [][/\ (act' \in {"EditSave", "EditDelete"} /\ call'.op # "none" /\ ~call'.ok)
             => (pc' = "edit_menu" /\ record' = record /\ exitCode' = -1)
       /\ (act \in {"EditSave", "EditDelete"} /\ call.op # "none" /\ ~call.ok)
             => selected' \in 0..10
       /\ (act' = "AddRest" /\ ~call'.ok)
             => (pc' = "records" /\ exitCode' = -1)
       /\ (act = "AddRest" /\ ~call.ok)
             => (act' = "GetRecords" /\ call'.op = "listRecords")]_vars

C13_Witness ==
    /\ act = "EditSave"
    /\ call.op = "update"
    /\ ~call.ok
    /\ pc = "edit_menu"
    /\ record.id = "r2"
    /\ record.name = <<"n">>

\* C14: a successful update ends edit_dns_record, and the next step is
\* manage_dns_records listing the records of the same zone by a remote
\* listRecords call, the list shown being what that call served.
C14_SaveRefreshesRecordList ==
    [][/\ (act' = "EditSave" /\ call'.ok)
             => (pc' = "records" /\ zone' = zone /\ record' = NoRecord)
       /\ (act = "EditSave" /\ call.ok)
             => /\ act' = "GetRecords"
                /\ call'.op = "listRecords"
                /\ call'.zone_id = zone.id
                /\ zone' = zone
                /\ dns_records' = get_dns_records(listing', ~call'.ok)]_vars

C14_Witness ==
    /\ act = "EditSave"
    /\ call.ok
    /\ call.id = "r1"
    /\ call.data.ttl = 30
    /\ pc = "records"

FieldEdits ==
    {"EditType", "EditName", "EditContent", "EditProxied", "EditComment", "EditTTL"}

\* C15: a field edit of edit_dns_record issues no remote call and stays at
\* the menu; an update call comes only from Save and carries the six fields
\* of the draft; a delete call comes only from a confirmed Delete; Back
\* issues no call and drops the draft, and a record opened later is the one
\* of the list fetched last.
C15_EditsChangeOnlyTheDraft ==
    [][/\ act' \in FieldEdits
             => (call' = NoCall /\ pc' = "edit_menu" /\ record'.id = record.id)
       /\ call'.op = "update"
             => /\ act' = "EditSave"
                /\ call'.id = record.id
                /\ call'.zone_id = zone.id
                /\ call'.data = [record EXCEPT !.id = ""]
       /\ call'.op = "delete"
             => (act' = "EditDelete" /\ DeleteConfirmed(inputs'[1]))
       /\ act' = "EditBack"
             => (call' = NoCall /\ record' = NoRecord /\ pc' = "records")
       /\ (act' = "RecordMenu" /\ pc' = "edit_menu")
             => record' = dns_records[selected']]_vars

C15_Witness ==
    /\ act = "EditSave"
    /\ call.op = "update"
    /\ call.id = "r1"
    /\ call.data.comment = <<"h", "i">>
    /\ call.data.proxied = FALSE
    /\ call.data.type = <<"T", "X", "T">>

RemoteOps == {"listZones", "listRecords", "create", "update", "delete"}

\* C16: a list, create, update or delete call is issued only with a client
\* whose token has passed verify(); in the TUI variant app.cf_instance is
\* then that client.
C16_VerificationPrecedesRemoteCalls ==
    call.op \in RemoteOps
        => (verified /\ (variant = "tui" => cf_instance = "client"))

C16_Witness ==
    /\ variant = "tui"
    /\ act = "TuiLoadDomains"
    /\ call.op = "listZones"
    /\ cf_instance = "client"
    /\ verified
    /\ domains = ZoneItems

\* C17: the record list opened after a domain is selected is scoped to the
\* domain at the selected index of the list: its name and zone id are those
\* of that domain, and the listRecords call that follows carries that id.
C17_SelectionScopesRecordList ==
    [][/\ (act' = "DomainMenu" /\ pc' = "records") => zone' = domains[selected']
       /\ (act = "DomainMenu" /\ pc = "records")
             => /\ act' = "GetRecords"
                /\ call'.op = "listRecords"
                /\ call'.zone_id = domains[selected].id
       /\ (act' = "TuiEditDomain" /\ selected' >= 1)
             => (Top' = "dns" /\ zone' = domains[selected'])
       /\ (act = "TuiEditDomain" /\ selected >= 1)
             => /\ act' = "TuiLoadRecords"
                /\ call'.op = "listRecords"
                /\ call'.zone_id = domains[selected].id
                /\ zone'.name = domains[selected].name]_vars

C17_Witness ==
    /\ act = "TuiEditDomain"
    /\ selected = 2
    /\ domains = ZoneItems
    /\ zone = Z2
    /\ Top = "dns"

\* C18: the logout key of the domain list, pressed on the domain list, on the
\* record list of a domain or on the about screen, makes the login screen
\* the active screen and leaves no domain or record screen on the stack.
C18_LogoutLeadsToLogin ==
    [][act' = "TuiKeyL"
          => /\ Top' = "login"
             /\ \A i \in 1..Len(screen_stack') :
                    screen_stack'[i] \notin {"manage", "dns"}]_vars

\* C19: on_mount with CLOUDFLARE_API_TOKEN set to a non-blank token that
\* verifies pushes the domain list, no login screen on the stack, cf_instance
\* the client; with the variable unset, blank or failing verification it
\* pushes the login screen, cf_instance None.
C19_EnvTokenBypassesLogin ==
    [][act' = "TuiOnMount"
          => IF TOKEN.set /\ Strip(TOKEN.value) # <<>> /\ call'.op = "verify"
                /\ call'.ok
             THEN /\ Top' = "manage"
                  /\ cf_instance' = "client"
                  /\ \A i \in 1..Len(screen_stack') : screen_stack'[i] # "login"
             ELSE /\ Top' = "login"
                  /\ cf_instance' = "None"]_vars

C19_Witness ==
    /\ act = "TuiOnMount"
    /\ TOKEN = EnvOf(GoodToken)
    /\ call.ok
    /\ ~size_ok
    /\ Top = "manage"
    /\ pending = "manage"

\* C20: main() and cli() called with --version or -v end the process with
\* exit code 0, the config not loaded, no screen pushed, no remote call made.
C20_VersionQueryExitsZero ==
    (act \in {"Main", "TuiCli"} /\ inputs[1] \in {VersionFlag, ShortVersionFlag})
        => /\ exitCode = 0
           /\ pc = "exited" \/ app_state = "exited"
           /\ call = NoCall
           /\ config = EmptyConfig
           /\ screen_stack = <<"_default">>

C22_TooSmallGuard ==
    (variant = "tui" /\ app_state = "running")
        => (~size_ok <=> Top = "screen_too_small")

====
